---- MODULE Spec2Model ----
(***************************************************************************)
(* SkillBridge frontend (src/src/App.tsx): the in-memory mock store, the   *)
(* data-access function api() and the panels that call it.                 *)
(*                                                                         *)
(* Strings that the code only compares are TLA+ strings.  A request path   *)
(* is the sequence of its '/'-separated pieces, so '/api/users' is         *)
(* <<"", "api", "users">>: startsWith, endsWith and split('/') of the code *)
(* are then exact on it.  An ISO-8601 timestamp is a fixed-width sequence  *)
(* of decimal digits, compared lexicographically as localeCompare does.    *)
(***************************************************************************)
EXTENDS Integers, Sequences, FiniteSets, TLC

VARIABLES
    USE_MOCK,        \* the process-wide mode flag
    skills,          \* mock.skills
    opportunities,   \* mock.opportunities
    users,           \* mock.users
    nextUid,         \* how many ids uid() has handed out, plus one
    now,             \* the wall clock, in milliseconds
    pc,              \* the direct caller of api(): "idle" or "settled"
    last,            \* the settled call of the direct caller
    view,            \* App's view state: the panel that is mounted
    panel,           \* the useState values of the mounted panel
    inflight,        \* the api() promises whose continuation has not run yet
    ran              \* the promise whose continuation ran in the step just taken

storeVars == <<skills, opportunities, users, nextUid>>
callVars == <<pc, last>>
appVars == <<view, panel, inflight, ran>>
vars == <<USE_MOCK, skills, opportunities, users, nextUid, now, pc, last,
          view, panel, inflight, ran>>

----------------------------------------------------------------------------
(* Bounds of the model *)

\* records created after seeding (opportunities and users together)
MaxCreated == 2
\* clock ticks after seeding
MaxTicks == 1
\* length of a skillIds list in a request body
MaxIds == 2
\* digits of a timestamp
IsoWidth == 8
\* promises of the panels awaiting their continuation
MaxInflight == 2
\* submits of the panels
MaxSubmits == 1

----------------------------------------------------------------------------
(* Values *)

undefined == "undefined"

IdPool ==
    << "k01", "k02", "k03", "k04", "k05", "k06", "k07", "k08", "k09", "k10",
       "k11", "k12", "k13", "k14", "k15", "k16", "k17", "k18", "k19", "k20",
       "k21", "k22", "k23", "k24" >>

\* uid(): the n-th identifier handed out; identifiers never repeat
uid(n) == IdPool[n]

skillNames ==
    << "JavaScript", "TypeScript", "React", "Node.js", "Express",
       "PostgreSQL", "Prisma", "Docker", "CI/CD" >>

\* the instant the module is loaded; the oldest seed lies an hour before it
T0 == 1000 * 60 * 60

RECURSIVE Pow10(_)
Pow10(n) == IF n = 0 THEN 1 ELSE 10 * Pow10(n - 1)

\* Date.toISOString: zero-padded fixed-width fields, most significant first
toISOString(t) == [i \in 1..IsoWidth |-> (t \div Pow10(IsoWidth - i)) % 10]

\* String.localeCompare on two timestamps: -1, 0 or 1
RECURSIVE localeCompareFrom(_, _, _)
localeCompareFrom(a, b, i) ==
    IF i > Len(a) /\ i > Len(b) THEN 0
    ELSE IF i > Len(a) THEN -1
    ELSE IF i > Len(b) THEN 1
    ELSE IF a[i] < b[i] THEN -1
    ELSE IF a[i] > b[i] THEN 1
    ELSE localeCompareFrom(a, b, i + 1)

localeCompare(a, b) == localeCompareFrom(a, b, 1)

\* Array.includes
includes(xs, x) == \E i \in DOMAIN xs : xs[i] = x

\* Array.find on name, for the seeds
findSkill(ss, name) == ss[CHOOSE i \in DOMAIN ss : ss[i].name = name]

seedSkills == [i \in DOMAIN skillNames |-> [id |-> uid(i), name |-> skillNames[i]]]

seedOpportunities(ss, t) ==
    << [id |-> uid(10), title |-> "Frontend Intern",
        description |-> "Build UI with React + TS",
        createdAt |-> toISOString(t),
        skills |-> <<findSkill(ss, "React"), findSkill(ss, "TypeScript")>>],
       [id |-> uid(11), title |-> "Backend Intern",
        description |-> "API with Node, Express, Prisma",
        createdAt |-> toISOString(t - 1000 * 60 * 15),
        skills |-> <<findSkill(ss, "Node.js"), findSkill(ss, "Express"),
                     findSkill(ss, "PostgreSQL"), findSkill(ss, "Prisma")>>],
       [id |-> uid(12), title |-> "DevOps Trainee",
        description |-> "Dockerize apps and set up CI",
        createdAt |-> toISOString(t - 1000 * 60 * 60),
        skills |-> <<findSkill(ss, "Docker"), findSkill(ss, "CI/CD")>>] >>

seedUsers(ss) ==
    << [id |-> uid(13), name |-> "Alice", email |-> "alice@example.com",
        skills |-> <<findSkill(ss, "React"), findSkill(ss, "TypeScript")>>],
       [id |-> uid(14), name |-> "Bob", email |-> "bob@example.com",
        skills |-> <<findSkill(ss, "Node.js"), findSkill(ss, "Express"),
                     findSkill(ss, "PostgreSQL")>>] >>

\* ids handed out while seeding: 9 skills, 3 opportunities, 2 users
seedCount == Len(seedSkills) + Len(seedOpportunities(seedSkills, T0)) + Len(seedUsers(seedSkills))

----------------------------------------------------------------------------
(* The mock store *)

\* body?.skillIds || []
bodySkillIds(body) ==
    IF body.defined /\ "skillIds" \in DOMAIN body.val THEN body.val.skillIds ELSE <<>>

\* body.title, body.name, ...: undefined when the property is missing
field(body, k) == IF k \in DOMAIN body.val THEN body.val[k] ELSE undefined

\* (mutant) the skills are looked up in the order of the request
chosen_callerOrder(body) ==
    LET known == SelectSeq(bodySkillIds(body),
                           LAMBDA id : \E i \in DOMAIN skills : skills[i].id = id)
    IN  [n \in DOMAIN known |-> skills[CHOOSE i \in DOMAIN skills : skills[i].id = known[n]]]

\* skills.filter((s) => (body?.skillIds || []).includes(s.id))
chosen(body) == SelectSeq(skills, LAMBDA s : includes(bodySkillIds(body), s.id))

getSkills == skills

\* (mutant) the comparator with its operands swapped
oppCompare_ascending(a, b) == localeCompare(a.createdAt, b.createdAt)

\* sort's comparator of getOpps
oppCompare(a, b) == localeCompare(b.createdAt, a.createdAt)

\* Array.sort is stable: x goes after every element that does not sort after it
RECURSIVE insertSorted(_, _, _)
insertSorted(sorted, x, i) ==
    IF i > Len(sorted) THEN Append(sorted, x)
    ELSE IF oppCompare(sorted[i], x) > 0
         THEN SubSeq(sorted, 1, i - 1) \o <<x>> \o SubSeq(sorted, i, Len(sorted))
         ELSE insertSorted(sorted, x, i + 1)

RECURSIVE sortFrom(_, _, _)
sortFrom(xs, sorted, i) ==
    IF i > Len(xs) THEN sorted
    ELSE sortFrom(xs, insertSorted(sorted, xs[i], 1), i + 1)

\* opportunities.slice().sort(...)
getOpps == sortFrom(opportunities, <<>>, 1)

\* the record postOpp builds
newOpp(body) ==
    [id |-> uid(nextUid), title |-> field(body, "title"),
     description |-> field(body, "description"),
     createdAt |-> toISOString(now), skills |-> chosen(body)]

\* (mutant) the new record is pushed to the end
unshift_push(xs, x) == Append(xs, x)

\* opportunities.unshift(opp)
unshift(xs, x) == <<x>> \o xs

getUsers == users

\* the record postUser builds
newUser(body) ==
    [id |-> uid(nextUid), name |-> field(body, "name"),
     email |-> field(body, "email"), skills |-> chosen(body)]

\* users.push(user)
push(xs, x) == Append(xs, x)

\* o.skills.reduce((acc, s) => acc + (uSkillIds.has(s.id) ? 1 : 0), 0)
RECURSIVE reduceScore(_, _, _, _)
reduceScore(ss, uSkillIds, i, acc) ==
    IF i > Len(ss) THEN acc
    ELSE reduceScore(ss, uSkillIds, i + 1, acc + (IF ss[i].id \in uSkillIds THEN 1 ELSE 0))

\* ({ ...o, matchScore }): a fresh object, the stored one is not touched
withScore(o, n) == ("matchScore" :> n) @@ o

\* (mutant) only the opportunities that share a skill are returned
matchesOf_positive(userId) ==
    LET found == SelectSeq(users, LAMBDA x : x.id = userId)
    IN  IF found = <<>> THEN <<>>
        ELSE LET u == found[1]
                 uSkillIds == {u.skills[i].id : i \in DOMAIN u.skills}
                 all == [i \in DOMAIN opportunities |->
                            withScore(opportunities[i],
                                      reduceScore(opportunities[i].skills, uSkillIds, 1, 0))]
             IN  SelectSeq(all, LAMBDA m : m.matchScore > 0)

\* the sequence getMatches resolves to
matchesOf(userId) ==
    LET found == SelectSeq(users, LAMBDA x : x.id = userId)
    IN  IF found = <<>> THEN <<>>
        ELSE LET u == found[1]
                 uSkillIds == {u.skills[i].id : i \in DOMAIN u.skills}
             IN  [i \in DOMAIN opportunities |->
                     withScore(opportunities[i],
                               reduceScore(opportunities[i].skills, uSkillIds, 1, 0))]

(* A handler's effect: how its promise settles, and the collections and the  *)
(* number of ids drawn when it is done.                                      *)
Returns(handler, value, opps, usrs, drawn) ==
    [handler |-> handler, outcome |-> "ok", value |-> value, error |-> "",
     opportunities |-> opps, users |-> usrs, drawn |-> drawn]

Throws(handler, error) ==
    [handler |-> handler, outcome |-> "error", value |-> <<>>, error |-> error,
     opportunities |-> opportunities, users |-> users, drawn |-> 0]

mock_getSkills == Returns("getSkills", getSkills, opportunities, users, 0)

mock_getOpps == Returns("getOpps", getOpps, opportunities, users, 0)

\* body.title of an undefined body is a TypeError
mock_postOpp(body) ==
    IF ~body.defined THEN Throws("postOpp", "TypeError")
    ELSE Returns("postOpp", newOpp(body), unshift(opportunities, newOpp(body)), users, 1)

mock_getUsers == Returns("getUsers", getUsers, opportunities, users, 0)

mock_postUser(body) ==
    IF ~body.defined THEN Throws("postUser", "TypeError")
    ELSE Returns("postUser", newUser(body), opportunities, push(users, newUser(body)), 1)

\* (mutant) an unknown user is scored as a user without skills
mock_getMatches_noGuard(userId) ==
    Returns("getMatches",
            IF \E i \in DOMAIN users : users[i].id = userId THEN matchesOf(userId)
            ELSE [i \in DOMAIN opportunities |-> withScore(opportunities[i], 0)],
            opportunities, users, 0)

\* (mutant) the score is written into the stored opportunities
mock_getMatches_inPlace(userId) ==
    Returns("getMatches", matchesOf(userId),
            IF matchesOf(userId) = <<>> THEN opportunities ELSE matchesOf(userId), users, 0)

mock_getMatches(userId) ==
    Returns("getMatches", matchesOf(userId), opportunities, users, 0)

----------------------------------------------------------------------------
(* The data-access function *)

P_skills == <<"", "api", "skills">>
P_opportunities == <<"", "api", "opportunities">>
P_users == <<"", "api", "users">>
P_matches(userId) == <<"", "api", "users", userId, "matches">>

NoBody == [text |-> "none"]
BadBody == [text |-> "invalid"]
\* JSON.stringify of an object of strings and string arrays
JSONstringify(obj) == [text |-> "json", val |-> obj]

\* options?.body ? JSON.parse(String(options.body)) : undefined
parsedBody(options) ==
    IF options.body.text = "json" THEN [defined |-> TRUE, val |-> options.body.val]
    ELSE [defined |-> FALSE, val |-> <<>>]

toUpperCase(m) ==
    IF m = "get" THEN "GET" ELSE IF m = "post" THEN "POST" ELSE m

\* (options?.method || 'GET').toUpperCase()
methodOf(options) == toUpperCase(IF options.method = "" THEN "GET" ELSE options.method)

\* path.startsWith('/api/users/')
startsWithUsers(path) ==
    Len(path) >= 4 /\ SubSeq(path, 1, 3) = P_users

\* path.endsWith('/matches')
endsWithMatches(path) ==
    Len(path) >= 2 /\ path[Len(path)] = "matches"

\* path.split('/')[3]
pathUserId(path) == path[4]

\* the rudimentary router of mock mode, its tests in the order of the code
mockRoute(path, options) ==
    LET method == methodOf(options)
        body == parsedBody(options)
    IN  IF options.body.text = "invalid" THEN Throws("none", "SyntaxError")
        ELSE IF path = P_skills /\ method = "GET" THEN mock_getSkills
        ELSE IF path = P_opportunities /\ method = "GET" THEN mock_getOpps
        ELSE IF path = P_opportunities /\ method = "POST" THEN mock_postOpp(body)
        ELSE IF path = P_users /\ method = "GET" THEN mock_getUsers
        ELSE IF path = P_users /\ method = "POST" THEN mock_postUser(body)
        ELSE IF startsWithUsers(path) /\ endsWithMatches(path) /\ method = "GET"
             THEN mock_getMatches(pathUserId(path))
        ELSE Throws("none", "Mock route not implemented")

(* Live mode.  The remote API is not part of the repository: it is taken to  *)
(* keep the same three collections and to answer the six routes of the       *)
(* interface table as the mock does, anything else with a non-2xx response. *)
ErrorTexts == {""}

remoteRoute(path, options) ==
    LET method == methodOf(options)
        body == parsedBody(options)
    IN  IF options.body.text = "invalid" THEN Throws("none", "rejected")
        ELSE IF path = P_skills /\ method = "GET" THEN mock_getSkills
        ELSE IF path = P_opportunities /\ method = "GET" THEN mock_getOpps
        ELSE IF path = P_opportunities /\ method = "POST" THEN mock_postOpp(body)
        ELSE IF path = P_users /\ method = "GET" THEN mock_getUsers
        ELSE IF path = P_users /\ method = "POST" THEN mock_postUser(body)
        ELSE IF Len(path) = 5 /\ path = P_matches(path[4]) /\ method = "GET"
             THEN mock_getMatches(path[4])
        ELSE Throws("none", "rejected")

\* the ways fetch + res.ok + res.json() can end for a request
liveOutcomes(path, options) ==
    LET r == remoteRoute(path, options)
    IN  {Throws("fetch", "Failed to fetch")}
        \cup {Throws("fetch", t) : t \in ErrorTexts}
        \cup (IF r.outcome = "ok" THEN {[r EXCEPT !.handler = "fetch"]} ELSE {})

\* api(path, options): the effects it can have
api(path, options) ==
    IF USE_MOCK THEN {mockRoute(path, options)} ELSE liveOutcomes(path, options)

created == nextUid - 1 - seedCount

\* the effect is applied to the store
Apply(eff) ==
    /\ opportunities' = eff.opportunities
    /\ users' = eff.users
    /\ nextUid' = nextUid + eff.drawn
    /\ skills' = skills

----------------------------------------------------------------------------
(* Direct calls of api(), as a test harness makes them *)

NoCall == [path |-> <<>>, options |-> [method |-> "", body |-> NoBody],
           handler |-> "none", outcome |-> "none", value |-> <<>>, error |-> ""]

InputIds == {uid(2), uid(3), "zz"}

SeqsUpTo(S, n) == UNION {[1..k -> S] : k \in 0..n}

SkillIdLists == SeqsUpTo(InputIds, MaxIds)

OppBodies ==
    {[title |-> "T", description |-> "D", skillIds |-> s] : s \in SkillIdLists}
    \cup {[title |-> "T", description |-> "D"]}

UserBodies ==
    {[name |-> "N", email |-> "E", skillIds |-> s] : s \in SkillIdLists}
    \cup {[name |-> "N", email |-> "E"]}

UserIdInputs == {users[i].id : i \in DOMAIN users} \cup {"zz", ""}

Paths ==
    {P_skills, P_opportunities, P_users, <<"", "api", "unknown">>,
     <<"", "api", "users", "matches">>, <<"", "api", "skills", "">>,
     <<"api", "skills">>, <<"", "api", "users", uid(13)>>,
     <<"", "api", "users", uid(13), "x", "matches">>}
    \cup {P_matches(u) : u \in UserIdInputs}

Methods == {"", "get", "POST", "DELETE"}

Requests ==
    {[path |-> p, options |-> [method |-> m, body |-> NoBody]] : p \in Paths, m \in Methods}
    \cup {[path |-> P_opportunities, options |-> [method |-> "POST", body |-> JSONstringify(b)]]
            : b \in OppBodies}
    \cup {[path |-> P_users, options |-> [method |-> "post", body |-> JSONstringify(b)]]
            : b \in UserBodies}
    \cup {[path |-> <<"", "api", "unknown">>, options |-> [method |-> "POST", body |-> b]]
            : b \in {BadBody, JSONstringify([title |-> "T", description |-> "D"])}}
    \cup {[path |-> P_skills, options |-> [method |-> "", body |-> BadBody]]}

Call ==
    /\ pc = "idle"
    /\ \E rq \in Requests : \E eff \in api(rq.path, rq.options) :
          /\ eff.drawn = 0 \/ created < MaxCreated
          /\ Apply(eff)
          /\ last' = [path |-> rq.path, options |-> rq.options, handler |-> eff.handler,
                      outcome |-> eff.outcome, value |-> eff.value, error |-> eff.error]
    /\ pc' = "settled"
    /\ UNCHANGED <<USE_MOCK, now>>
    /\ UNCHANGED appVars

\* the caller has looked at the settled promise
Observe ==
    /\ pc = "settled"
    /\ pc' = "idle"
    /\ last' = NoCall
    /\ UNCHANGED <<USE_MOCK, skills, opportunities, users, nextUid, now>>
    /\ UNCHANGED appVars

Tick ==
    /\ now < T0 + MaxTicks
    /\ now' = now + 1
    /\ UNCHANGED <<USE_MOCK, skills, opportunities, users, nextUid, pc, last>>
    /\ UNCHANGED appVars

----------------------------------------------------------------------------
(* The panels *)

Views == {"opps", "users", "match", "create"}

\* the useState initial values of a panel
panelInit(v) ==
    IF v = "opps" THEN [list |-> <<>>]
    ELSE IF v = "create"
         THEN [skills |-> <<>>, title |-> "", description |-> "", selected |-> <<>>,
               saving |-> FALSE, message |-> ""]
    ELSE IF v = "users"
         THEN [skills |-> <<>>, users |-> <<>>, name |-> "", email |-> "", selected |-> <<>>]
    ELSE [users |-> <<>>, selected |-> "", matches |-> <<>>]

Get == [method |-> "", body |-> NoBody]
Post(obj) == [method |-> "POST", body |-> JSONstringify(obj)]

NoRes == [outcome |-> "pending", value |-> <<>>, error |-> ""]

resOf(eff) == [outcome |-> eff.outcome, value |-> eff.value, error |-> eff.error]

\* a promise of api(path, options) whose continuation is cont; in mock mode the
\* async function has run to its end when api() returns
promise(path, options, cont) ==
    [path |-> path, options |-> options, cont |-> cont, live |-> TRUE,
     res |-> IF USE_MOCK THEN resOf(mockRoute(path, options)) ELSE NoRes]

NoRan == [cont |-> "none", live |-> FALSE, path |-> <<>>, options |-> Get,
          res |-> NoRes, rejection |-> "none"]

\* the effects a panel runs when it is mounted
mountEffects(v) ==
    IF v = "opps" THEN <<promise(P_opportunities, Get, "setList")>>
    ELSE IF v = "create" THEN <<promise(P_skills, Get, "setSkills")>>
    ELSE IF v = "users"
         THEN <<promise(P_skills, Get, "setSkills"), promise(P_users, Get, "setUsers")>>
    ELSE <<promise(P_users, Get, "setUsers")>>

\* a state update of an unmounted panel is discarded
orphaned(rs) == [i \in DOMAIN rs |-> [rs[i] EXCEPT !.live = FALSE]]

Remove(rs, i) == SubSeq(rs, 1, i - 1) \o SubSeq(rs, i + 1, Len(rs))

\* in mock mode every promise settles before the next event is handled
EventReady == USE_MOCK => inflight = <<>>

\* the values the operator types and the skills the operator clicks
Titles == {"T"}
Descriptions == {"D"}
Names == {"N"}
Emails == {"E"}
UiSkillIds == {uid(3)}

\* toggle of CreateOpportunity and of Users
toggle(xs, id) ==
    IF includes(xs, id) THEN SelectSeq(xs, LAMBDA x : x # id) ELSE Append(xs, id)

\* Header: setView(v); the panel of the old view is unmounted, that of v mounted
SetViewTo(v) ==
    /\ EventReady
    /\ v # view
    /\ Len(inflight) + Len(mountEffects(v)) <= MaxInflight
    /\ view' = v
    /\ panel' = panelInit(v)
    /\ inflight' = orphaned(inflight) \o mountEffects(v)
    /\ ran' = NoRan
    /\ UNCHANGED <<USE_MOCK, skills, opportunities, users, nextUid, now, pc, last>>

SetView == \E v \in Views : SetViewTo(v)

\* onChange of the inputs of CreateOpportunity
TypeTitle ==
    /\ EventReady
    /\ view = "create"
    /\ \E t \in Titles : panel' = [panel EXCEPT !.title = t]
    /\ ran' = NoRan
    /\ UNCHANGED <<USE_MOCK, skills, opportunities, users, nextUid, now, pc, last,
                   view, inflight>>

TypeDescription ==
    /\ EventReady
    /\ view = "create"
    /\ \E d \in Descriptions : panel' = [panel EXCEPT !.description = d]
    /\ ran' = NoRan
    /\ UNCHANGED <<USE_MOCK, skills, opportunities, users, nextUid, now, pc, last,
                   view, inflight>>

\* onChange of the inputs of Users
TypeName ==
    /\ EventReady
    /\ view = "users"
    /\ \E n \in Names : panel' = [panel EXCEPT !.name = n]
    /\ ran' = NoRan
    /\ UNCHANGED <<USE_MOCK, skills, opportunities, users, nextUid, now, pc, last,
                   view, inflight>>

TypeEmail ==
    /\ EventReady
    /\ view = "users"
    /\ \E e \in Emails : panel' = [panel EXCEPT !.email = e]
    /\ ran' = NoRan
    /\ UNCHANGED <<USE_MOCK, skills, opportunities, users, nextUid, now, pc, last,
                   view, inflight>>

\* onClick of a skill button; the buttons are those of the fetched catalog
Toggle ==
    /\ EventReady
    /\ view \in {"create", "users"}
    /\ \E i \in DOMAIN panel.skills :
          /\ panel.skills[i].id \in UiSkillIds
          /\ panel' = [panel EXCEPT !.selected = toggle(panel.selected, panel.skills[i].id)]
    /\ ran' = NoRan
    /\ UNCHANGED <<USE_MOCK, skills, opportunities, users, nextUid, now, pc, last,
                   view, inflight>>

\* the submits made so far: records created and creations still in flight
submits ==
    created + Cardinality({i \in DOMAIN inflight :
                              inflight[i].cont \in {"submitOpp", "submitUserPost"}
                              /\ inflight[i].res = NoRes})

\* a creation in mock mode is done when api() returns
IssuePost(path, options) ==
    IF USE_MOCK THEN Apply(mockRoute(path, options))
    ELSE UNCHANGED <<skills, opportunities, users, nextUid>>

\* CreateOpportunity.submit up to its await; Save is disabled while saving
SubmitOpportunity ==
    /\ EventReady
    /\ view = "create"
    /\ ~panel.saving
    /\ Len(inflight) < MaxInflight
    /\ submits < MaxSubmits
    /\ LET options == Post([title |-> panel.title, description |-> panel.description,
                            skillIds |-> panel.selected])
       IN  /\ IssuePost(P_opportunities, options)
           /\ inflight' = Append(inflight, promise(P_opportunities, options, "submitOpp"))
    /\ panel' = [panel EXCEPT !.saving = TRUE, !.message = ""]
    /\ ran' = NoRan
    /\ UNCHANGED <<USE_MOCK, now, pc, last, view>>

\* Users.submit up to its first await
SubmitUser ==
    /\ EventReady
    /\ view = "users"
    /\ Len(inflight) < MaxInflight
    /\ submits < MaxSubmits
    /\ LET options == Post([name |-> panel.name, email |-> panel.email,
                            skillIds |-> panel.selected])
       IN  /\ IssuePost(P_users, options)
           /\ inflight' = Append(inflight, promise(P_users, options, "submitUserPost"))
    /\ ran' = NoRan
    /\ UNCHANGED <<USE_MOCK, now, pc, last, view, panel>>

\* the select of Matching changes, and the effect on [selected] runs
Select ==
    /\ EventReady
    /\ view = "match"
    /\ \E v \in {panel.users[i].id : i \in DOMAIN panel.users} \cup {""} :
          /\ v # panel.selected
          /\ IF v = ""
             THEN /\ panel' = [panel EXCEPT !.selected = v, !.matches = <<>>]
                  /\ inflight' = inflight
             ELSE /\ Len(inflight) < MaxInflight
                  /\ panel' = [panel EXCEPT !.selected = v]
                  /\ inflight' = Append(inflight, promise(P_matches(v), Get, "setMatches"))
    /\ ran' = NoRan
    /\ UNCHANGED <<USE_MOCK, skills, opportunities, users, nextUid, now, pc, last, view>>

\* the state field a .then(setX) continuation sets
setterField(cont) ==
    IF cont = "setSkills" THEN "skills"
    ELSE IF cont = "setList" THEN "list"
    ELSE IF cont = "setMatches" THEN "matches"
    ELSE "users"

\* (mutant) a response for another user than the selected one is dropped
thenSet_checked(p, r) ==
    IF r.res.outcome = "ok" /\ r.live /\ (r.cont = "setMatches" => r.path[4] = p.selected)
    THEN [p EXCEPT ![setterField(r.cont)] = r.res.value]
    ELSE p

\* api(...).then(setX).catch(console.error)
thenSet(p, r) ==
    IF r.res.outcome = "ok" /\ r.live
    THEN [p EXCEPT ![setterField(r.cont)] = r.res.value]
    ELSE p

\* (mutant) saving is reset at the end of the try block, not in a finally
submitAfterAwait_noFinally(p, r) ==
    IF ~r.live THEN p
    ELSE IF r.res.outcome = "ok"
         THEN [p EXCEPT !.title = "", !.description = "", !.selected = <<>>,
                        !.message = "Created!", !.saving = FALSE]
    ELSE [p EXCEPT !.message = IF r.res.error # "" THEN r.res.error ELSE "Error"]

\* CreateOpportunity.submit after its await: try, catch and finally
submitAfterAwait(p, r) ==
    IF ~r.live THEN p
    ELSE IF r.res.outcome = "ok"
         THEN [p EXCEPT !.title = "", !.description = "", !.selected = <<>>,
                        !.message = "Created!", !.saving = FALSE]
    ELSE [p EXCEPT !.message = IF r.res.error # "" THEN r.res.error ELSE "Error",
                   !.saving = FALSE]

\* Users.submit after its first await
submitUserAfterPost(p, r) ==
    IF r.res.outcome = "ok" /\ r.live
    THEN [p EXCEPT !.name = "", !.email = "", !.selected = <<>>]
    ELSE p

\* what becomes of a rejected promise: console.error, the message of the
\* Creation panel (set to no avail once the panel is unmounted), or nothing at
\* all: Users.submit has no catch, its rejection is unhandled
rejection(r) ==
    IF r.res.outcome # "error" THEN "none"
    ELSE IF r.cont \in {"setSkills", "setList", "setUsers", "setMatches"} THEN "logged"
    ELSE IF r.cont = "submitOpp" THEN (IF r.live THEN "displayed" ELSE "caught")
    ELSE "unhandled"

\* the promises left when the continuation of r has run: Users.submit goes
\* on to its second await
afterContinuation(r, rest) ==
    IF r.cont = "submitUserPost" /\ r.res.outcome = "ok"
    THEN Append(rest, [promise(P_users, Get, "submitUserGet") EXCEPT !.live = r.live])
    ELSE rest

\* the state of the mounted panel when the continuation of r has run
continued(p, r) ==
    IF r.cont = "submitOpp" THEN submitAfterAwait(p, r)
    ELSE IF r.cont = "submitUserPost" THEN submitUserAfterPost(p, r)
    ELSE thenSet(p, r)

\* the continuation of promise r runs
Continue(r, rest) ==
    /\ ran' = [cont |-> r.cont, live |-> r.live, path |-> r.path, options |-> r.options,
               res |-> r.res, rejection |-> rejection(r)]
    /\ panel' = continued(panel, r)
    /\ inflight' = afterContinuation(r, rest)

\* mock mode: the oldest promise settles
Deliver ==
    /\ USE_MOCK
    /\ inflight # <<>>
    /\ Continue(inflight[1], Tail(inflight))
    /\ UNCHANGED <<USE_MOCK, skills, opportunities, users, nextUid, now, pc, last, view>>

\* live mode: the response to any request arrives, or the request fails
Respond ==
    /\ ~USE_MOCK
    /\ \E i \in DOMAIN inflight :
          \E eff \in liveOutcomes(inflight[i].path, inflight[i].options) :
             /\ Apply(eff)
             /\ Continue([inflight[i] EXCEPT !.res = resOf(eff)], Remove(inflight, i))
    /\ UNCHANGED <<USE_MOCK, now, pc, last, view>>

StoreInit ==
    /\ skills = seedSkills
    /\ opportunities = seedOpportunities(seedSkills, T0)
    /\ users = seedUsers(seedSkills)
    /\ nextUid = seedCount + 1
    /\ now = T0
    /\ pc = "idle"
    /\ last = NoCall
    /\ ran = NoRan

\* direct calls of api() against the mock store: no panel has been rendered
Init ==
    /\ USE_MOCK = TRUE
    /\ StoreInit
    /\ view = "opps"
    /\ panel = panelInit("opps")
    /\ inflight = <<>>

Next == Call \/ Observe \/ Tick

Spec == Init /\ [][Next]_vars

\* the application: App renders with view 'opps' and OpportunityList mounts
AppInit ==
    /\ USE_MOCK \in BOOLEAN
    /\ StoreInit
    /\ view = "opps"
    /\ panel = panelInit("opps")
    /\ inflight = mountEffects("opps")

AppNext ==
    \/ SetView \/ TypeTitle \/ TypeDescription \/ TypeName \/ TypeEmail \/ Toggle
    \/ SubmitOpportunity \/ SubmitUser \/ Select
    \/ Deliver \/ Respond \/ Tick

AppSpec == AppInit /\ [][AppNext]_vars

\* the operator opens the Creation panel and works in it
OpenCreate == SetViewTo("create")

CreateNext ==
    \/ OpenCreate \/ TypeTitle \/ TypeDescription \/ Toggle \/ SubmitOpportunity
    \/ Deliver \/ Respond \/ Tick

CreateSpec == AppInit /\ [][CreateNext]_vars

\* the operator opens the Matching panel and works in it
OpenMatching == SetViewTo("match")

MatchingNext == OpenMatching \/ Select \/ Deliver \/ Respond \/ Tick

MatchingSpec == AppInit /\ [][MatchingNext]_vars

----------------------------------------------------------------------------
(* Properties *)

\* the position of an identifier in the order uid() handed them out
idx(id) == CHOOSE n \in DOMAIN IdPool : IdPool[n] = id

\* an identifier handed out after seeding
isCreated(id) == idx(id) > seedCount

userExists(userId) == \E i \in DOMAIN users : users[i].id = userId

userSkillIdSet(userId) ==
    LET u == users[CHOOSE i \in DOMAIN users : users[i].id = userId]
    IN  {u.skills[j].id : j \in DOMAIN u.skills}

\* a settled direct call of mock.getMatches
SettledMatches == pc = "settled" /\ last.handler = "getMatches" /\ last.outcome = "ok"

\* C1: for an existing user, matchesFor returns exactly one entry per stored
\* opportunity, those of score 0 included, and an entry's matchScore is the
\* number of the opportunity's skills whose id is in the user's skill-id set.
C1_MatchScores ==
    (pc = "settled" /\ last.handler = "getMatches" /\ userExists(last.path[4])) =>
        /\ last.outcome = "ok"
        /\ Len(last.value) = Len(opportunities)
        /\ \A k \in DOMAIN opportunities :
              LET o == opportunities[k]
                  hits == {i \in DOMAIN last.value : last.value[i].id = o.id}
              IN  /\ Cardinality(hits) = 1
                  /\ \A i \in hits :
                        last.value[i].matchScore =
                           Cardinality({j \in DOMAIN o.skills :
                                           o.skills[j].id \in userSkillIdSet(last.path[4])})

\* C1: matches of an existing user over seeded and created opportunities, with
\* an entry of score 0 and an entry of score 2
C1_Witness ==
    /\ SettledMatches
    /\ userExists(last.path[4])
    /\ Len(opportunities) > 3
    /\ \E i \in DOMAIN last.value : last.value[i].matchScore = 0
    /\ \E i \in DOMAIN last.value : last.value[i].matchScore = 2

\* C2 as claimed: of two opportunities created by createOpportunity, the one
\* created first comes before the one created later in the result of matchesFor.
C2_CreationOrder ==
    (SettledMatches /\ userExists(last.path[4])) =>
        \A i, j \in DOMAIN last.value :
           (/\ isCreated(last.value[i].id)
            /\ isCreated(last.value[j].id)
            /\ idx(last.value[i].id) < idx(last.value[j].id)) => i < j

\* C2 as amended: the result of matchesFor follows the order of the store, not
\* re-sorted by matchScore or createdAt; createOpportunity inserts at the front,
\* so of two created opportunities the one created later comes first.
C2_StoreOrder ==
    (SettledMatches /\ userExists(last.path[4])) =>
        /\ [i \in DOMAIN last.value |-> last.value[i].id]
              = [i \in DOMAIN opportunities |-> opportunities[i].id]
        /\ \A i, j \in DOMAIN last.value :
              (/\ isCreated(last.value[i].id)
               /\ isCreated(last.value[j].id)
               /\ idx(last.value[i].id) < idx(last.value[j].id)) => j < i

\* C2: two created opportunities in a result whose scores neither rise nor fall
C2_Witness ==
    /\ SettledMatches
    /\ userExists(last.path[4])
    /\ \E i, j \in DOMAIN last.value :
          i # j /\ isCreated(last.value[i].id) /\ isCreated(last.value[j].id)
    /\ \E i, j \in DOMAIN last.value :
          i < j /\ last.value[i].matchScore < last.value[j].matchScore
    /\ \E i, j \in DOMAIN last.value :
          i < j /\ last.value[i].matchScore > last.value[j].matchScore

\* a settled direct POST of a JSON body to one of the two creation routes
SettledCreation ==
    /\ pc = "settled"
    /\ last.path \in {P_opportunities, P_users}
    /\ methodOf(last.options) = "POST"
    /\ last.options.body.text = "json"

requestedIds ==
    IF "skillIds" \in DOMAIN last.options.body.val
    THEN {last.options.body.val.skillIds[n] : n \in DOMAIN last.options.body.val.skillIds}
    ELSE {}

catalogPos(id) == CHOOSE i \in DOMAIN skills : skills[i].id = id

\* C3: for every skillIds list (any order, duplicates, unknown ids, empty or
\* missing) createOpportunity and createUser succeed, and the skills of the
\* created record are exactly the catalog skills whose id occurs in skillIds,
\* in catalog order, each at most once.
C3_ChosenSkills ==
    SettledCreation =>
        /\ last.outcome = "ok"
        /\ LET sk == last.value.skills
           IN  /\ \A i \in DOMAIN sk : \E k \in DOMAIN skills : skills[k] = sk[i]
               /\ {sk[i].id : i \in DOMAIN sk}
                     = {skills[k].id : k \in DOMAIN skills} \cap requestedIds
               /\ \A i, j \in DOMAIN sk :
                     i < j => catalogPos(sk[i].id) < catalogPos(sk[j].id)

\* C3: a creation whose skillIds name React before TypeScript, and whose record
\* lists TypeScript before React
C3_Witness ==
    /\ SettledCreation
    /\ "skillIds" \in DOMAIN last.options.body.val
    /\ last.options.body.val.skillIds = <<uid(3), uid(2)>>
    /\ last.value.skills = <<skills[2], skills[3]>>

\* the instant a timestamp stands for
RECURSIVE instantFrom(_, _, _)
instantFrom(ds, i, acc) ==
    IF i > Len(ds) THEN acc ELSE instantFrom(ds, i + 1, 10 * acc + ds[i])

instant(ds) == instantFrom(ds, 1, 0)

storePos(id) == CHOOSE k \in DOMAIN opportunities : opportunities[k].id = id

SettledList == pc = "settled" /\ last.handler = "getOpps"

\* C4: listOpportunities returns all stored opportunities with createdAt
\* non-increasing, opportunities of equal createdAt in their store order; of two
\* opportunities created in sequence the later one is listed first.
C4_ListSorted ==
    SettledList =>
        /\ last.outcome = "ok"
        /\ Len(last.value) = Len(opportunities)
        /\ \A k \in DOMAIN opportunities :
              \E i \in DOMAIN last.value : last.value[i] = opportunities[k]
        /\ \A i, j \in DOMAIN last.value :
              i < j =>
                 /\ instant(last.value[i].createdAt) >= instant(last.value[j].createdAt)
                 /\ last.value[i].createdAt = last.value[j].createdAt
                       => storePos(last.value[i].id) < storePos(last.value[j].id)
                 /\ (isCreated(last.value[i].id) /\ isCreated(last.value[j].id))
                       => idx(last.value[i].id) > idx(last.value[j].id)

\* C4: a listing with two created opportunities of the same createdAt
C4_Witness ==
    /\ SettledList
    /\ \E i, j \in DOMAIN last.value :
          /\ i < j
          /\ isCreated(last.value[i].id)
          /\ isCreated(last.value[j].id)
          /\ last.value[i].createdAt = last.value[j].createdAt

\* the six entries of the route table
inRouteTable(path, method) ==
    \/ path = P_skills /\ method = "GET"
    \/ path = P_opportunities /\ method \in {"GET", "POST"}
    \/ path = P_users /\ method \in {"GET", "POST"}
    \/ Len(path) = 5 /\ path = P_matches(path[4]) /\ method = "GET"

\* C5: in mock mode a call whose method and path are not one of the six entries
\* of the route table fails with 'Mock route not implemented' and is not
\* dispatched to an operation of the mock store (calls with a well-formed body).
C5_UnknownRouteFails ==
    (/\ pc = "settled"
     /\ USE_MOCK
     /\ last.options.body.text # "invalid"
     /\ ~inRouteTable(last.path, methodOf(last.options))) =>
        /\ last.outcome = "error"
        /\ last.error = "Mock route not implemented"
        /\ last.handler = "none"

\* C6: matchesFor of an id that is the id of no stored user resolves to the empty
\* sequence, no error raised, and leaves the store unchanged.
C6_UnknownUserEmpty ==
    [][(/\ pc' = "settled"
        /\ last'.handler = "getMatches"
        /\ ~userExists(last'.path[4])) =>
          /\ last'.outcome = "ok"
          /\ last'.value = <<>>
          /\ UNCHANGED storeVars]_vars

\* C6: matches asked for an unknown id while created opportunities exist
C6_Witness ==
    /\ pc = "settled"
    /\ last.handler = "getMatches"
    /\ ~userExists(last.path[4])
    /\ last.value = <<>>
    /\ Len(opportunities) > 3

\* C7: every rejected promise of a panel is caught there: logged on the read
\* paths, displayed in the panel on the write paths; none is left unhandled.
C7_FailuresHandled ==
    ran.res.outcome = "error" =>
        /\ ran.rejection \in {"logged", "displayed", "caught"}
        /\ ran.cont \in {"setSkills", "setList", "setUsers", "setMatches"}
              => ran.rejection = "logged"
        /\ (ran.cont \in {"submitOpp", "submitUserPost", "submitUserGet"} /\ ran.live)
              => ran.rejection = "displayed"
        /\ (ran.cont = "submitOpp" /\ ran.live) => panel.message # ""

oneAdded(old, new) ==
    /\ Len(new) = Len(old) + 1
    /\ \E k \in DOMAIN new :
          /\ SubSeq(new, 1, k - 1) \o SubSeq(new, k + 1, Len(new)) = old
          /\ \A i \in DOMAIN old : old[i].id # new[k].id

\* C8: the skill catalog never changes; the opportunities and the users change
\* only by a creation call, which adds exactly one record and leaves the others
\* as they are; the reads change nothing; no stored opportunity has a matchScore.
C8_Frame ==
    [][/\ skills' = skills
       /\ opportunities' # opportunities =>
             /\ oneAdded(opportunities, opportunities')
             /\ users' = users
             /\ pc' = "settled" /\ last'.handler = "postOpp"
       /\ users' # users =>
             /\ oneAdded(users, users')
             /\ opportunities' = opportunities
             /\ pc' = "settled" /\ last'.handler = "postUser"
       /\ (pc' = "settled"
           /\ last'.handler \in {"getSkills", "getOpps", "getUsers", "getMatches"})
             => UNCHANGED storeVars
       /\ \A i \in DOMAIN opportunities' : "matchScore" \notin DOMAIN opportunities'[i]
      ]_vars

\* C8: a scored read after an opportunity and a user have been created
C8_Witness ==
    /\ SettledMatches
    /\ last.value # <<>>
    /\ Len(opportunities) = 4
    /\ Len(users) = 3

\* a completed submit of the mounted Creation panel
SubmitCompleted == ran.cont = "submitOpp" /\ ran.live

Cleared ==
    /\ panel.title = ""
    /\ panel.description = ""
    /\ panel.selected = <<>>
    /\ panel.message = "Created!"

\* C9 as claimed: when a submit of the Creation panel completes, on success the
\* fields are cleared and the message is 'Created!'; on failure the message is
\* the error's message verbatim and the fields have their values of the submit;
\* saving is true while the request is in flight and false afterwards.
C9_SubmitOutcome ==
    /\ \A i \in DOMAIN inflight :
          (inflight[i].cont = "submitOpp" /\ inflight[i].live) => panel.saving
    /\ SubmitCompleted =>
          /\ ~panel.saving
          /\ ran.res.outcome = "ok" => Cleared
          /\ ran.res.outcome = "error" =>
                /\ panel.message = ran.res.error
                /\ panel.title = ran.options.body.val.title
                /\ panel.description = ran.options.body.val.description
                /\ panel.selected = ran.options.body.val.skillIds

\* C9 as amended: on failure the message is the error's message, or 'Error' when
\* that message is empty, and the completion leaves title, description and
\* selection as they are then (the inputs stay editable during the request).
C9_SubmitOutcomeAmended ==
    [][/\ \A i \in DOMAIN inflight' :
             (inflight'[i].cont = "submitOpp" /\ inflight'[i].live) => panel'.saving
       /\ (ran'.cont = "submitOpp" /\ ran'.live) =>
             /\ ~panel'.saving
             /\ ran'.res.outcome = "ok" =>
                   /\ panel'.title = ""
                   /\ panel'.description = ""
                   /\ panel'.selected = <<>>
                   /\ panel'.message = "Created!"
             /\ ran'.res.outcome = "error" =>
                   /\ panel'.message =
                         (IF ran'.res.error # "" THEN ran'.res.error ELSE "Error")
                   /\ panel'.title = panel.title
                   /\ panel'.description = panel.description
                   /\ panel'.selected = panel.selected
      ]_vars

\* C9: a submit that failed with an empty message after the title was typed
\* during the request
C9_Witness ==
    /\ SubmitCompleted
    /\ ran.res.outcome = "error"
    /\ ran.res.error = ""
    /\ panel.message = "Error"
    /\ ~panel.saving
    /\ ran.options.body.val.title = ""
    /\ panel.title = "T"

\* C10: in the Matching panel a change of the selection to a user id dispatches
\* one matches fetch for that id, a change to no selection empties the matches,
\* and every resolved response is applied whatever the selection is by then.
C10_AppliedUnconditionally ==
    [][/\ (view = "match" /\ view' = "match" /\ panel'.selected # panel.selected) =>
             IF panel'.selected = ""
             THEN panel'.matches = <<>> /\ inflight' = inflight
             ELSE /\ Len(inflight') = Len(inflight) + 1
                  /\ SubSeq(inflight', 1, Len(inflight)) = inflight
                  /\ inflight'[Len(inflight')].path = P_matches(panel'.selected)
                  /\ inflight'[Len(inflight')].cont = "setMatches"
       /\ (ran'.cont = "setMatches" /\ ran'.live /\ ran'.res.outcome = "ok") =>
             panel'.matches = ran'.res.value
      ]_vars

\* C10: no request is in flight and the matches shown are those of another user
\* than the selected one, whose response resolved last
C10_Witness ==
    /\ view = "match"
    /\ inflight = <<>>
    /\ panel.selected # ""
    /\ ran.cont = "setMatches"
    /\ ran.res.outcome = "ok"
    /\ ran.path[4] # panel.selected
    /\ panel.matches = matchesOf(ran.path[4])
    /\ panel.matches # matchesOf(panel.selected)

====
